---- MODULE Spec2Model ----
(***************************************************************************)
(* Model of check_status.py: the SystemStatusChecker of AI-Trader.         *)
(*                                                                         *)
(* One run of main() is modelled: the eight probes of run_all_checks are   *)
(* called in the order of the `checks` list, each one appending entries to *)
(* the three lists of the checker (issues, warnings, success); then        *)
(* print_summary computes the verdict and main exits with 0 or 1.          *)
(*                                                                         *)
(* What a probe reads from the outside world (interpreter version,         *)
(* importable packages, files, environment variables, sockets) is the      *)
(* record `env`, chosen in the initial state and never changed by the run. *)
(* Text is modelled as a sequence of one-character strings, so that        *)
(* int() of a port variable and the emptiness test of os.getenv are        *)
(* computed as the code computes them.  Of the printed output only the     *)
(* status line of print_summary is kept.                                   *)
(***************************************************************************)
EXTENDS Integers, Sequences, FiniteSets, TLC

VARIABLES
    env,        \* the outside world the probes read
    issues,     \* self.issues
    warnings,   \* self.warnings
    success,    \* self.success
    results,    \* the dict `results` of run_all_checks
    i,          \* position of the for loop of run_all_checks in `checks`
    invoked,    \* history: the probe functions called so far, in call order
    summary,    \* the status line print_summary has printed, or "none"
    is_ready,   \* main's is_ready: "unset" until print_summary returns
    exit_code,  \* status given to sys.exit; -1 while the process runs
    pc          \* "run_all_checks", "print_summary", "exit" or "done"

vars == <<env, issues, warnings, success, results, i, invoked, summary,
          is_ready, exit_code, pc>>

----------------------------------------------------------------------------
(* Bounds of the model.                                                    *)

MaxMajor == 4        \* interpreter major versions 2..MaxMajor
MaxMinor == 15       \* interpreter minor versions 0..MaxMinor
MaxModels == 2       \* entries of the `models` list of the config file
MaxPriceFiles == 2   \* files matching daily_prices_*.json

----------------------------------------------------------------------------
(* Program constants.                                                      *)

RequiredMajor == 3
RequiredMinor == 10

required_packages ==
    << [import_name |-> "langchain", package_name |-> "langchain"],
       [import_name |-> "langchain_openai", package_name |-> "langchain-openai"],
       [import_name |-> "langchain_mcp_adapters",
        package_name |-> "langchain-mcp-adapters"],
       [import_name |-> "fastmcp", package_name |-> "fastmcp"],
       [import_name |-> "dotenv", package_name |-> "python-dotenv"] >>

required_fields == << "agent_type", "date_range", "models", "agent_config" >>

config_path == "configs/default_config.json"

env_path == ".env"

data_dir == "data"

agent_data_dir == "data/agent_data"

critical_vars ==
    << [var |-> "OPENAI_API_KEY", desc |-> "OpenAI API key"],
       [var |-> "OPENAI_API_BASE", desc |-> "OpenAI base URL"] >>

optional_vars ==
    << [var |-> "ALPHAADVANTAGE_API_KEY", desc |-> "Alpha Vantage API key"],
       [var |-> "JINA_API_KEY", desc |-> "Jina AI API key"] >>

required_tools ==
    << "agent_tools/tool_math.py", "agent_tools/tool_jina_search.py",
       "agent_tools/tool_trade.py", "agent_tools/tool_get_price_local.py",
       "agent_tools/start_mcp_services.py" >>

required_files ==
    << "main.py", "requirements.txt", "agent/base_agent/base_agent.py" >>

\* The `ports` dict, in insertion order: service id, the variable that
\* holds its port, the default given to os.getenv, and its display name
\* from `service_names`.
ports ==
    << [id |-> "math", var |-> "MATH_HTTP_PORT",
        default |-> <<"8", "0", "0", "0">>, name |-> "Math Service"],
       [id |-> "search", var |-> "SEARCH_HTTP_PORT",
        default |-> <<"8", "0", "0", "1">>, name |-> "Search Service"],
       [id |-> "trade", var |-> "TRADE_HTTP_PORT",
        default |-> <<"8", "0", "0", "2">>, name |-> "Trade Service"],
       [id |-> "price", var |-> "GETPRICE_HTTP_PORT",
        default |-> <<"8", "0", "0", "3">>, name |-> "Price Service"] >>

\* Variant of `checks` with the environment and data probes exchanged.
checks_reordered ==
    << [name |-> "Python version", func |-> "check_python_version"],
       [name |-> "Dependencies", func |-> "check_dependencies"],
       [name |-> "Configuration", func |-> "check_config_file"],
       [name |-> "Data", func |-> "check_data_files"],
       [name |-> "Environment variables", func |-> "check_env_file"],
       [name |-> "Agent tools", func |-> "check_agent_tools"],
       [name |-> "Main files", func |-> "check_main_files"],
       [name |-> "MCP services", func |-> "check_mcp_services"] >>

\* The `checks` list of run_all_checks: display name and bound method.
checks ==
    << [name |-> "Python version", func |-> "check_python_version"],
       [name |-> "Dependencies", func |-> "check_dependencies"],
       [name |-> "Configuration", func |-> "check_config_file"],
       [name |-> "Environment variables", func |-> "check_env_file"],
       [name |-> "Data", func |-> "check_data_files"],
       [name |-> "Agent tools", func |-> "check_agent_tools"],
       [name |-> "Main files", func |-> "check_main_files"],
       [name |-> "MCP services", func |-> "check_mcp_services"] >>

----------------------------------------------------------------------------
(* Helpers: entries, the aggregator, what a call gives back.               *)

\* One line of a list of the checker.  `kind` tells which f-string of the
\* source made it; subject, detail, a and b are the values it formats.
Entry(kind, subject, detail, a, b) ==
    [kind |-> kind, subject |-> subject, detail |-> detail, a |-> a, b |-> b]

\* The three lists of self, as one value handed to a probe.
Checker(iss, warn, succ) ==
    [issues |-> iss, warnings |-> warn, success |-> succ]

AddIssue(self, e) == [self EXCEPT !.issues = Append(@, e)]
AddWarning(self, e) == [self EXCEPT !.warnings = Append(@, e)]
AddSuccess(self, e) == [self EXCEPT !.success = Append(@, e)]

\* A call that returns `ret` ("True", "False" or "None").
Return(self, ret) == [self |-> self, ret |-> ret, fault |-> ""]

\* A call that raises an exception of type `exc` (a subclass of Exception).
Raise(self, exc) == [self |-> self, ret |-> "None", fault |-> exc]

PyBool(b) == IF b THEN "True" ELSE "False"

\* d[k] = v on a Python dict.
DictSet(d, k, v) ==
    [x \in (DOMAIN d) \cup {k} |-> IF x = k THEN v ELSE d[x]]

----------------------------------------------------------------------------
(* Text and int().                                                         *)

Digits == {"0", "1", "2", "3", "4", "5", "6", "7", "8", "9"}

DigitValue(c) ==
    CASE c = "0" -> 0 [] c = "1" -> 1 [] c = "2" -> 2 [] c = "3" -> 3
      [] c = "4" -> 4 [] c = "5" -> 5 [] c = "6" -> 6 [] c = "7" -> 7
      [] c = "8" -> 8 [] c = "9" -> 9

RECURSIVE ParseDigits(_, _)
ParseDigits(s, acc) ==
    IF s = <<>> THEN acc
    ELSE ParseDigits(Tail(s), acc * 10 + DigitValue(Head(s)))

\* int(s) for a text of digits and letters: the value, or ValueError for
\* the empty text and for a text holding anything but digits.
int(s) ==
    IF Len(s) > 0 /\ \A k \in 1..Len(s) : s[k] \in Digits
    THEN [ok |-> TRUE, value |-> ParseDigits(s, 0)]
    ELSE [ok |-> FALSE, value |-> 0]

\* os.getenv(var, default) on the process environment `environ`.
os_getenv(environ, var, default) ==
    IF var \in DOMAIN environ THEN environ[var] ELSE default

\* `not os.getenv(var)`: the variable is unset (None) or holds "".
NotGetenv(environ, var) ==
    var \notin DOMAIN environ \/ Len(environ[var]) = 0

\* Path(p).exists() in the file system of `e`.
exists(e, p) == p \in e.paths

----------------------------------------------------------------------------
(* The probes.  Each takes the lists of self and the outside world and     *)
(* gives back the lists as it leaves them, with its return value or the    *)
(* exception that leaves it.                                               *)

\* Variant of check_python_version that compares (major, minor) in
\* lexicographic order.
check_python_version_lexicographic(self, e) ==
    LET version == e.version IN
    IF \/ version.major > RequiredMajor
       \/ version.major = RequiredMajor /\ version.minor >= RequiredMinor
    THEN Return(AddSuccess(self, Entry("python_ok", "", "",
                                       version.major, version.minor)),
                "True")
    ELSE Return(AddIssue(self, Entry("python_too_old", "", "",
                                     version.major, version.minor)),
                "False")

check_python_version(self, e) ==
    LET version == e.version IN
    IF version.major >= RequiredMajor /\ version.minor >= RequiredMinor
    THEN Return(AddSuccess(self, Entry("python_ok", "", "",
                                       version.major, version.minor)),
                "True")
    ELSE Return(AddIssue(self, Entry("python_too_old", "", "",
                                     version.major, version.minor)),
                "False")

\* The for loop of check_dependencies from package k on.  e.imports[k] is
\* what __import__ of package k does: "ok", "ImportError" (caught by the
\* probe), or the type of another exception, which leaves the probe.
RECURSIVE ImportLoop(_, _, _, _)
ImportLoop(self, missing, k, e) ==
    IF k > Len(required_packages) THEN Return(self, PyBool(Len(missing) = 0))
    ELSE LET package_name == required_packages[k].package_name IN
         IF e.imports[k] = "ok"
         THEN ImportLoop(AddSuccess(self, Entry("package_installed",
                                                package_name, "", 0, 0)),
                         missing, k + 1, e)
         ELSE IF e.imports[k] = "ImportError"
         THEN ImportLoop(AddIssue(self, Entry("package_missing",
                                              package_name, "", 0, 0)),
                         Append(missing, package_name), k + 1, e)
         ELSE Raise(self, e.imports[k])

check_dependencies(self, e) == ImportLoop(self, <<>>, 1, e)

\* `field not in config` for the parsed document: a key of an object, an
\* element of an array, a substring of a string (doc.has holds the required
\* field names found that way).
FieldNotIn(field, doc) == field \notin doc.has

\* The for loop over required_fields: the index of the first field for
\* which `field not in config` holds, 0 when the loop runs to its end.
RECURSIVE FieldLoop(_, _)
FieldLoop(doc, k) ==
    IF k > Len(required_fields) THEN 0
    ELSE IF FieldNotIn(required_fields[k], doc) THEN k
    ELSE FieldLoop(doc, k + 1)

\* m.get('enabled', False) taken as a condition, for a model that is an
\* object.
Enabled(m) == m = "enabled_true"

\* [m for m in config.get('models', []) if m.get('enabled', False)]
enabled_models(models) == SelectSeq(models.items, Enabled)

ConfigReadError(self, exc) ==
    Return(AddIssue(self, Entry("config_read_error", config_path, exc, 0, 0)),
           "False")

check_config_file(self, e) ==
    LET content == e.config
        doc == content.doc
        first_missing == FieldLoop(doc, 1)
        n_enabled == Len(enabled_models(doc.models))
    IN
    IF ~exists(e, config_path)
    THEN Return(AddIssue(self, Entry("config_not_found", config_path, "",
                                     0, 0)), "False")
    ELSE IF content.file = "unreadable"      \* open or read raises
    THEN ConfigReadError(self, "OSError")
    ELSE IF content.file = "malformed"       \* json.load raises
    THEN Return(AddIssue(self, Entry("config_json_error", config_path,
                                     "JSONDecodeError", 0, 0)), "False")
    ELSE IF doc.kind = "number"              \* `in` on a number raises
    THEN ConfigReadError(self, "TypeError")
    ELSE IF first_missing # 0
    THEN Return(AddIssue(self, Entry("config_field_missing",
                                     required_fields[first_missing], "",
                                     0, 0)), "False")
    ELSE IF doc.kind # "object"              \* no .get on a list or a str
    THEN ConfigReadError(self, "AttributeError")
    ELSE IF doc.models.kind = "number"       \* iterating a number raises
    THEN ConfigReadError(self, "TypeError")
    ELSE IF \E k \in 1..Len(doc.models.items) :
                doc.models.items[k] = "not_object"   \* no .get on it
    THEN ConfigReadError(self, "AttributeError")
    ELSE LET counted ==
                 IF n_enabled = 0
                 THEN AddWarning(self, Entry("no_enabled_models", "", "",
                                             0, 0))
                 ELSE AddSuccess(self, Entry("enabled_models", "", "",
                                             n_enabled, 0))
         IN Return(AddSuccess(counted, Entry("config_valid", config_path,
                                             "", 0, 0)), "True")

\* A for loop of check_env_file over `variables` from position k on;
\* `note` tells the optional variables' warning from the critical ones'.
RECURSIVE EnvVarLoop(_, _, _, _, _)
EnvVarLoop(self, variables, note, k, e) ==
    IF k > Len(variables) THEN self
    ELSE LET v == variables[k] IN
         IF NotGetenv(e.environ, v.var)
         THEN EnvVarLoop(AddWarning(self, Entry("variable_not_set", v.var,
                                                note, 0, 0)),
                         variables, note, k + 1, e)
         ELSE EnvVarLoop(AddSuccess(self, Entry("variable_set", v.desc, "",
                                                0, 0)),
                         variables, note, k + 1, e)

\* check_env_file has no return statement: the call gives None.
check_env_file(self, e) ==
    LET file == IF ~exists(e, env_path)
                THEN AddWarning(self, Entry("env_file_not_found", env_path,
                                            "", 0, 0))
                ELSE AddSuccess(self, Entry("env_file_found", env_path, "",
                                            0, 0))
        critical == EnvVarLoop(file, critical_vars, "", 1, e)
        optional == EnvVarLoop(critical, optional_vars, "optional", 1, e)
    IN Return(optional, "None")

\* Variant of check_data_files in which a data directory without price
\* files is an issue.
check_data_files_strict(self, e) ==
    IF ~exists(e, data_dir)
    THEN Return(AddIssue(self, Entry("data_dir_not_found", data_dir, "",
                                     0, 0)), "False")
    ELSE LET prices ==
                 IF e.price_files = 0
                 THEN AddIssue(self, Entry("no_price_files", "", "", 0, 0))
                 ELSE AddSuccess(self, Entry("price_files", "", "",
                                             e.price_files, 0))
             agent ==
                 IF exists(e, agent_data_dir)
                 THEN AddSuccess(prices, Entry("agent_data_exists",
                                               agent_data_dir, "", 0, 0))
                 ELSE AddWarning(prices, Entry("agent_data_missing",
                                               agent_data_dir, "", 0, 0))
         IN Return(agent, "True")

check_data_files(self, e) ==
    IF ~exists(e, data_dir)
    THEN Return(AddIssue(self, Entry("data_dir_not_found", data_dir, "",
                                     0, 0)), "False")
    ELSE LET prices ==
                 IF e.price_files = 0
                 THEN AddWarning(self, Entry("no_price_files", "", "", 0, 0))
                 ELSE AddSuccess(self, Entry("price_files", "", "",
                                             e.price_files, 0))
             agent ==
                 IF exists(e, agent_data_dir)
                 THEN AddSuccess(prices, Entry("agent_data_exists",
                                               agent_data_dir, "", 0, 0))
                 ELSE AddWarning(prices, Entry("agent_data_missing",
                                               agent_data_dir, "", 0, 0))
         IN Return(agent, "True")

\* check_port: connect_ex gives 0 when something listens on the port and
\* an errno otherwise; an exception of the socket calls gives False.
check_port(e, port) ==
    IF port \in e.raising THEN FALSE ELSE port \in e.listening

\* The for loop of check_mcp_services over the `ports` dict from k on.
RECURSIVE PortLoop(_, _, _, _, _)
PortLoop(self, port_of, all_running, k, e) ==
    IF k > Len(ports) THEN Return(self, PyBool(all_running))
    ELSE IF check_port(e, port_of[k])
    THEN PortLoop(AddSuccess(self, Entry("service_running", ports[k].name,
                                         "", port_of[k], 0)),
                  port_of, all_running, k + 1, e)
    ELSE PortLoop(AddWarning(self, Entry("service_not_running",
                                         ports[k].name, "", port_of[k], 0)),
                  port_of, FALSE, k + 1, e)

\* The `ports` dict is built first: one int() that raises leaves the probe
\* before any port is tried.
check_mcp_services(self, e) ==
    LET parsed == [k \in 1..Len(ports) |->
                      int(os_getenv(e.environ, ports[k].var, ports[k].default))]
    IN IF \E k \in 1..Len(ports) : ~parsed[k].ok
       THEN Raise(self, "ValueError")
       ELSE PortLoop(self, [k \in 1..Len(ports) |-> parsed[k].value],
                     TRUE, 1, e)

\* Variant of PathLoop in which a missing path is a warning.
RECURSIVE PathLoop_warn(_, _, _, _, _)
PathLoop_warn(self, paths, all_exist, k, e) ==
    IF k > Len(paths) THEN Return(self, PyBool(all_exist))
    ELSE IF exists(e, paths[k])
    THEN PathLoop_warn(AddSuccess(self, Entry("file_found", paths[k], "",
                                              0, 0)),
                       paths, all_exist, k + 1, e)
    ELSE PathLoop_warn(AddWarning(self, Entry("file_not_found", paths[k], "",
                                              0, 0)),
                       paths, FALSE, k + 1, e)

\* The for loop of check_agent_tools and of check_main_files over `paths`.
RECURSIVE PathLoop(_, _, _, _, _)
PathLoop(self, paths, all_exist, k, e) ==
    IF k > Len(paths) THEN Return(self, PyBool(all_exist))
    ELSE IF exists(e, paths[k])
    THEN PathLoop(AddSuccess(self, Entry("file_found", paths[k], "", 0, 0)),
                  paths, all_exist, k + 1, e)
    ELSE PathLoop(AddIssue(self, Entry("file_not_found", paths[k], "",
                                       0, 0)),
                  paths, FALSE, k + 1, e)

check_agent_tools(self, e) == PathLoop(self, required_tools, TRUE, 1, e)

check_main_files(self, e) == PathLoop(self, required_files, TRUE, 1, e)

----------------------------------------------------------------------------
(* run_all_checks, print_summary and main.                                 *)

\* Variant of TryCheck whose except branch records False without
\* appending an issue.
TryCheck_silent(name, r) ==
    IF r.fault = ""
    THEN [self |-> r.self, result |-> r.ret]
    ELSE [self |-> r.self, result |-> "False"]

\* The body of the for loop of run_all_checks for the outcome `r` of
\* check_func(): the try branch keeps what the probe returned, the except
\* branch appends one issue naming the check and the exception and records
\* False.
TryCheck(name, r) ==
    IF r.fault = ""
    THEN [self |-> r.self, result |-> r.ret]
    ELSE [self |-> AddIssue(r.self, Entry("check_error", name, r.fault, 0, 0)),
          result |-> "False"]

\* Variant of print_summary that returns True only without warnings.
print_summary_strict(self) ==
    LET total_issues == Len(self.issues)
        total_warnings == Len(self.warnings)
    IN IF total_issues = 0 /\ total_warnings = 0
       THEN [status |-> "ready", ret |-> "True"]
       ELSE IF total_issues = 0
       THEN [status |-> "ready_with_warnings", ret |-> "False"]
       ELSE [status |-> "not_ready", ret |-> "False"]

\* The status lines and the return value of print_summary.
print_summary(self) ==
    LET total_issues == Len(self.issues)
        total_warnings == Len(self.warnings)
    IN IF total_issues = 0 /\ total_warnings = 0
       THEN [status |-> "ready", ret |-> "True"]
       ELSE IF total_issues = 0
       THEN [status |-> "ready_with_warnings", ret |-> "True"]
       ELSE [status |-> "not_ready", ret |-> "False"]

\* Variant of ExitStatus that gives 0 whatever the verdict.
ExitStatus_always_zero(ready) == IF ready = "True" THEN 0 ELSE 0

\* The argument of sys.exit in main.
ExitStatus(ready) == IF ready = "True" THEN 0 ELSE 1

\* check_func() for the bound method named `func`.
Call(func, self, e) ==
    CASE func = "check_python_version" -> check_python_version(self, e)
      [] func = "check_dependencies" -> check_dependencies(self, e)
      [] func = "check_config_file" -> check_config_file(self, e)
      [] func = "check_env_file" -> check_env_file(self, e)
      [] func = "check_data_files" -> check_data_files(self, e)
      [] func = "check_agent_tools" -> check_agent_tools(self, e)
      [] func = "check_main_files" -> check_main_files(self, e)
      [] func = "check_mcp_services" -> check_mcp_services(self, e)

Self == Checker(issues, warnings, success)

\* One pass of the for loop of run_all_checks, when the entry of `checks`
\* at position i is the probe `func`.
RunCheck(func) ==
    /\ pc = "run_all_checks"
    /\ i <= Len(checks)
    /\ checks[i].func = func
    /\ LET after == TryCheck(checks[i].name, Call(func, Self, env)) IN
       /\ issues' = after.self.issues
       /\ warnings' = after.self.warnings
       /\ success' = after.self.success
       /\ results' = DictSet(results, checks[i].name, after.result)
    /\ invoked' = Append(invoked, func)
    /\ i' = i + 1
    /\ pc' = IF i < Len(checks) THEN "run_all_checks" ELSE "print_summary"
    /\ UNCHANGED <<env, summary, is_ready, exit_code>>

CheckPythonVersion ==
    /\ pc = "run_all_checks"
    /\ RunCheck("check_python_version")

CheckDependencies ==
    /\ pc = "run_all_checks"
    /\ RunCheck("check_dependencies")

CheckConfigFile ==
    /\ pc = "run_all_checks"
    /\ RunCheck("check_config_file")

CheckEnvFile ==
    /\ pc = "run_all_checks"
    /\ RunCheck("check_env_file")

CheckDataFiles ==
    /\ pc = "run_all_checks"
    /\ RunCheck("check_data_files")

CheckAgentTools ==
    /\ pc = "run_all_checks"
    /\ RunCheck("check_agent_tools")

CheckMainFiles ==
    /\ pc = "run_all_checks"
    /\ RunCheck("check_main_files")

CheckMcpServices ==
    /\ pc = "run_all_checks"
    /\ RunCheck("check_mcp_services")

\* main: is_ready = checker.print_summary()
PrintSummary ==
    /\ pc = "print_summary"
    /\ summary' = print_summary(Self).status
    /\ is_ready' = print_summary(Self).ret
    /\ pc' = "exit"
    /\ UNCHANGED <<env, issues, warnings, success, results, i, invoked,
                   exit_code>>

\* main: sys.exit(0 if is_ready else 1)
Exit ==
    /\ pc = "exit"
    /\ exit_code' = ExitStatus(is_ready)
    /\ pc' = "done"
    /\ UNCHANGED <<env, issues, warnings, success, results, i, invoked,
                   summary, is_ready>>

Next ==
    \/ CheckPythonVersion
    \/ CheckDependencies
    \/ CheckConfigFile
    \/ CheckEnvFile
    \/ CheckDataFiles
    \/ CheckAgentTools
    \/ CheckMainFiles
    \/ CheckMcpServices
    \/ PrintSummary
    \/ Exit

\* The state main starts run_all_checks in, for the outside worlds `envs`:
\* SystemStatusChecker.__init__ has made the three lists empty.
Start(envs) ==
    /\ env \in envs
    /\ issues = <<>>
    /\ warnings = <<>>
    /\ success = <<>>
    /\ results = <<>>
    /\ i = 1
    /\ invoked = <<>>
    /\ summary = "none"
    /\ is_ready = "unset"
    /\ exit_code = -1
    /\ pc = "run_all_checks"

----------------------------------------------------------------------------
(* The outside worlds the run is checked in.                               *)

Range(seq) == {seq[k] : k \in DOMAIN seq}

Versions == [major : 2..MaxMajor, minor : 0..MaxMinor]

\* What __import__ of one package does.
ImportOutcomes == {"ok", "ImportError", "AttributeError"}

AllImported == [k \in DOMAIN required_packages |-> "ok"]

\* A model entry of the config file: an object with enabled true, false
\* or absent, or something that is no object.
ModelItems == {"enabled_true", "enabled_false", "enabled_absent", "not_object"}

ModelLists == UNION {[1..n -> ModelItems] : n \in 0..MaxModels}

ModelsValues ==
    {[kind |-> "list", items |-> l] : l \in ModelLists}
        \cup {[kind |-> "number", items |-> <<>>]}

NoModels == [kind |-> "list", items |-> <<>>]

\* The documents json.load can give: an object, an array or a string
\* holding any of the required field names, or a number.  The value of
\* `models` is read only in a document that holds all four names.
Docs ==
    {[kind |-> k, has |-> h, models |-> NoModels] :
        k \in {"object", "array", "string"},
        h \in (SUBSET Range(required_fields)) \ {Range(required_fields)}}
    \cup {[kind |-> k, has |-> Range(required_fields), models |-> NoModels] :
            k \in {"array", "string"}}
    \cup {[kind |-> "object", has |-> Range(required_fields), models |-> m] :
            m \in ModelsValues}
    \cup {[kind |-> "number", has |-> {}, models |-> NoModels]}

NoDoc == [kind |-> "number", has |-> {}, models |-> NoModels]

ConfigContents ==
    {[file |-> f, doc |-> NoDoc] : f \in {"unreadable", "malformed"}}
        \cup {[file |-> "parsed", doc |-> d] : d \in Docs}

ObjectConfig(items) ==
    [file |-> "parsed",
     doc |-> [kind |-> "object", has |-> Range(required_fields),
              models |-> [kind |-> "list", items |-> items]]]

RequiredPaths ==
    {config_path} \cup Range(required_tools) \cup Range(required_files)

AllPaths == RequiredPaths \cup {env_path, data_dir, agent_data_dir}

CredentialVars ==
    {critical_vars[k].var : k \in DOMAIN critical_vars}
        \cup {optional_vars[k].var : k \in DOMAIN optional_vars}

PortVars == {ports[k].var : k \in DOMAIN ports}

\* Values of the variables: an empty value and a key; a port number and a
\* text that is no number.
CredentialTexts == {<<>>, <<"k">>}

PortTexts == {<<"8", "0", "8", "0">>, <<"a", "b", "c">>}

Environs(names, texts) == UNION {[d -> texts] : d \in SUBSET names}

DefaultPorts == {int(ports[k].default).value : k \in DOMAIN ports}

TcpPorts == DefaultPorts \cup {int(t).value : t \in {x \in PortTexts : int(x).ok}}

World(v, im, p, c, en, pf, l, r) ==
    [version |-> v, imports |-> im, paths |-> p, config |-> c, environ |-> en,
     price_files |-> pf, listening |-> l, raising |-> r]

\* Everything in place: a passing version, all packages, all files, one
\* enabled model, all credentials, price data, all four services up.
ReadyWorld ==
    World([major |-> RequiredMajor, minor |-> RequiredMinor], AllImported,
          AllPaths, ObjectConfig(<<"enabled_true">>),
          [x \in CredentialVars |-> <<"k">>], 1, DefaultPorts, {})

\* A fresh checkout: the required files, no .env, no variables, no data,
\* no service.
BareWorld ==
    [ReadyWorld EXCEPT !.paths = RequiredPaths, !.environ = <<>>,
                       !.price_files = 0, !.listening = {}]

\* Worlds for the runner: every probe succeeds or fails, and the
\* dependency and network probes raise, independently of the others.  The
\* module itself imports dotenv before main runs, so that package is
\* importable in every run.
RunnerWorlds ==
    {World(v, im, (AllPaths \ gone) \ d.gone, c, en, d.price_files, l, {}) :
        v \in {[major |-> RequiredMajor, minor |-> RequiredMinor],
                [major |-> RequiredMajor, minor |-> RequiredMinor - 1]},
        im \in {AllImported,
                 [AllImported EXCEPT ![2] = "ImportError"],
                 [AllImported EXCEPT ![2] = "ImportError",
                                     ![4] = "AttributeError"]},
        gone \in {g \in SUBSET RequiredPaths :
                     /\ Cardinality(g \cap Range(required_tools)) <= 1
                     /\ Cardinality(g \cap Range(required_files)) <= 1},
        d \in {[gone |-> {data_dir, agent_data_dir}, price_files |-> 0]}
                 \cup {[gone |-> {}, price_files |-> n] :
                          n \in 0..MaxPriceFiles},
        c \in {ObjectConfig(<<"enabled_true">>), ObjectConfig(<<>>),
                [file |-> "malformed", doc |-> NoDoc]},
        en \in {<<>>, [x \in CredentialVars |-> <<"k">>],
                 [x \in {"TRADE_HTTP_PORT"} |-> <<"a", "b", "c">>]},
        l \in {{}, DefaultPorts}}

\* Worlds for the version probe: every version, in the ready and in the
\* bare world.
VersionWorlds ==
    {[w EXCEPT !.version = v] : w \in {ReadyWorld, BareWorld}, v \in Versions}

\* Worlds for the config probe: every content of the file, present or not,
\* after a version probe that passes or fails.
ConfigWorlds ==
    {[ReadyWorld EXCEPT !.config = c, !.paths = AllPaths \ gone,
                        !.version.minor = m] :
        c \in ConfigContents, gone \in {{}, {config_path}},
        m \in {RequiredMinor - 1, RequiredMinor}}

\* Worlds for the environment probe: every setting of the four credential
\* variables, with and without the .env file.
EnvWorlds ==
    {[w EXCEPT !.environ = en, !.paths = w.paths \ gone] :
        w \in {ReadyWorld, [ReadyWorld EXCEPT !.paths = @ \ {config_path}]},
        en \in Environs(CredentialVars, CredentialTexts),
        gone \in {{}, {env_path}}}

\* Worlds for the network probe: every setting of the four port variables
\* and every set of ports with a listener; a socket call may raise.
McpWorlds ==
    {[w EXCEPT !.environ = en, !.listening = l, !.raising = r] :
        w \in {ReadyWorld},
        en \in Environs(PortVars, PortTexts),
        l \in SUBSET TcpPorts,
        r \in {{}, {int(ports[2].default).value}}}

\* Worlds of the end-to-end case: required files present, packages
\* importable, a passing version, a valid config with an enabled model, no
\* variable set, no price file, no listener.
EndToEndWorlds ==
    {World(v, AllImported, RequiredPaths \cup extra, ObjectConfig(m), <<>>, 0,
           {}, r) :
        v \in {x \in Versions :
                  x.major >= RequiredMajor /\ x.minor >= RequiredMinor},
        extra \in {x \in SUBSET {env_path, data_dir, agent_data_dir} :
                      agent_data_dir \in x => data_dir \in x},
        m \in {x \in ModelLists :
                  /\ "not_object" \notin Range(x)
                  /\ "enabled_true" \in Range(x)},
        r \in SUBSET {int(ports[1].default).value}}

Init == Start(RunnerWorlds)

Spec == Init /\ [][Next]_vars

InitVersion == Start(VersionWorlds)

SpecVersion == InitVersion /\ [][Next]_vars

InitConfig == Start(ConfigWorlds)

SpecConfig == InitConfig /\ [][Next]_vars

InitEnv == Start(EnvWorlds)

SpecEnv == InitEnv /\ [][Next]_vars

InitMcp == Start(McpWorlds)

SpecMcp == InitMcp /\ [][Next]_vars

InitEndToEnd == Start(EndToEndWorlds)

SpecEndToEnd == InitEndToEnd /\ [][Next]_vars

----------------------------------------------------------------------------
(* Properties.                                                             *)

Count(seq, kind) == Cardinality({k \in DOMAIN seq : seq[k].kind = kind})

\* The probe the for loop of run_all_checks is about to call.
AtProbe(func) ==
    pc = "run_all_checks" /\ i <= Len(checks) /\ checks[i].func = func

\* C1: once print_summary has returned, its verdict is true exactly when
\* the list of issues is empty, whatever the number of warnings.
C1_VerdictIffNoIssues ==
    /\ is_ready \in {"unset", "True", "False"}
    /\ pc \in {"exit", "done"} => is_ready # "unset"
    /\ is_ready = "True" => Len(issues) = 0
    /\ is_ready = "False" => Len(issues) >= 1

\* C1 witness: a verdict of true over a run that left warnings.
C1_ReadyWithWarnings ==
    is_ready = "True" /\ Len(warnings) >= 2 /\ Len(issues) = 0

\* C2: the probes called so far are the first ones of the declared order
\* (version, dependencies, config, env, data, agent tools, main files, MCP
\* services), each once, and the loop is left only when all eight have been
\* called, whatever they returned or raised.
C2_EachProbeOnceInOrder ==
    LET declared == << "check_python_version", "check_dependencies",
                       "check_config_file", "check_env_file",
                       "check_data_files", "check_agent_tools",
                       "check_main_files", "check_mcp_services" >>
    IN /\ Len(invoked) <= Len(declared)
       /\ invoked = SubSeq(declared, 1, Len(invoked))
       /\ pc = "run_all_checks" => Len(invoked) < Len(declared)
       /\ pc # "run_all_checks" => invoked = declared

\* C2 witness: a finished run of eight calls in which one probe raised and
\* other probes returned False and True.
C2_AllEightDespiteFaults ==
    /\ pc = "done"
    /\ Len(invoked) = 8
    /\ Count(issues, "check_error") >= 1
    /\ results["Python version"] = "False"
    /\ results["Main files"] = "True"

\* C3: a pass of the loop in which the probe raises appends, after what the
\* probe had appended, exactly one issue naming the check and the exception,
\* records the check as False and goes on to the next check (to the summary
\* after the last one); a pass in which the probe returns appends no such
\* issue.
C3_FaultBecomesOneIssue ==
    [][pc = "run_all_checks" =>
         LET r == Call(checks[i].func, Self, env)
             name == checks[i].name
         IN IF r.fault # ""
            THEN /\ issues' = Append(r.self.issues,
                                     Entry("check_error", name, r.fault, 0, 0))
                 /\ Count(issues', "check_error")
                        = Count(issues, "check_error") + 1
                 /\ warnings' = r.self.warnings
                 /\ success' = r.self.success
                 /\ results'[name] = "False"
                 /\ i' = i + 1
                 /\ pc' = IF i < 8 THEN "run_all_checks" ELSE "print_summary"
            ELSE Count(issues', "check_error") = Count(issues, "check_error")
      ]_vars

\* C3 witness: the dependency probe has raised, its issue is in the list
\* and the run has gone on past the next probe.
C3_RunGoesOnAfterFault ==
    /\ pc = "run_all_checks"
    /\ i = 4
    /\ \E k \in DOMAIN issues :
          issues[k] = Entry("check_error", "Dependencies", "AttributeError",
                            0, 0)
    /\ results["Dependencies"] = "False"
    /\ "Configuration" \in DOMAIN results

\* C4: the process exits with 0 when the list of issues is empty after all
\* probes and with 1 otherwise; no other status is given to sys.exit.
C4_ExitStatusIffNoIssues ==
    /\ exit_code \in {-1, 0, 1}
    /\ pc = "done" <=> exit_code # -1
    /\ exit_code = 0 => Len(issues) = 0 /\ Len(invoked) = 8
    /\ exit_code = 1 => Len(issues) >= 1 /\ Len(invoked) = 8

\* C4 witness: an exit with 0 after a run that left warnings.
C4_ExitZeroWithWarnings ==
    pc = "done" /\ exit_code = 0 /\ Len(warnings) >= 1

\* The end-to-end case of C5: required files present, packages importable,
\* version passing the probe, config valid with an enabled model, no
\* variable set, no price file, no port with a listener.
EndToEndCase ==
    /\ RequiredPaths \subseteq env.paths
    /\ \A k \in DOMAIN required_packages : env.imports[k] = "ok"
    /\ env.version.major >= 3 /\ env.version.minor >= 10
    /\ env.config.file = "parsed"
    /\ env.config.doc.kind = "object"
    /\ env.config.doc.has = {"agent_type", "date_range", "models",
                             "agent_config"}
    /\ env.config.doc.models.kind = "list"
    /\ "not_object" \notin Range(env.config.doc.models.items)
    /\ "enabled_true" \in Range(env.config.doc.models.items)
    /\ DOMAIN env.environ = {}
    /\ env.price_files = 0
    /\ env.listening = {}

ReadyWithWarningsExitZero ==
    /\ summary = "ready_with_warnings"
    /\ Len(issues) = 0
    /\ Len(warnings) >= 1
    /\ exit_code = 0

\* C5 as stated: in the end-to-end case the run ends "ready with warnings"
\* with exit code 0.
C5_EndToEndAsStated ==
    (pc = "done" /\ EndToEndCase) => ReadyWithWarningsExitZero

\* C5 amended: in the end-to-end case, when the data directory exists, the
\* run ends "ready with warnings" with exit code 0.
C5_EndToEndWithDataDir ==
    (pc = "done" /\ EndToEndCase /\ "data" \in env.paths)
        => ReadyWithWarningsExitZero

\* C5 witness: a finished run of the end-to-end case with an empty data
\* directory.
C5_EndToEndReached ==
    /\ pc = "done"
    /\ EndToEndCase
    /\ "data" \in env.paths
    /\ summary = "ready_with_warnings"
    /\ Count(warnings, "no_price_files") = 1
    /\ Count(warnings, "service_not_running") = 4

\* C6: when a path of the agent-tool list or of the main-file list is
\* absent, the finished run holds an issue naming it and exits with 1,
\* whatever the other probes did.
C6_MissingFileBlocks ==
    \A p \in { "agent_tools/tool_math.py", "agent_tools/tool_jina_search.py",
                "agent_tools/tool_trade.py",
                "agent_tools/tool_get_price_local.py",
                "agent_tools/start_mcp_services.py",
                "main.py", "requirements.txt",
                "agent/base_agent/base_agent.py" } :
        (pc = "done" /\ p \notin env.paths)
            => /\ \E k \in DOMAIN issues :
                     issues[k].kind = "file_not_found" /\ issues[k].subject = p
               /\ exit_code = 1

\* C6 witness: a finished run whose only issue is one absent tool file,
\* every other probe having succeeded.
C6_OnlyOneToolAbsent ==
    /\ pc = "done"
    /\ "agent_tools/tool_trade.py" \notin env.paths
    /\ Len(issues) = 1
    /\ results["MCP services"] = "True"
    /\ exit_code = 1

\* C7 as stated: the pass of the loop that calls the environment probe
\* appends no issue, appends one warning for each absent variable and for
\* an absent .env file, and records the probe as successful.
C7_EnvProbeAlwaysSucceeds ==
    [][AtProbe("check_env_file") =>
         /\ issues' = issues
         /\ Len(warnings') - Len(warnings)
               = Cardinality({v \in CredentialVars : NotGetenv(env.environ, v)})
                   + (IF ".env" \in env.paths THEN 0 ELSE 1)
         /\ results'["Environment variables"] = "True"
      ]_vars

\* C8 as stated: the pass of the loop that calls the network probe appends
\* no issue, appends one warning naming service and port for each service
\* that is not reachable, and records True exactly when all four are
\* reachable; a run without any other issue then has a true verdict.
C8_McpProbeNeverBlocks ==
    [][AtProbe("check_mcp_services") =>
         LET port == [k \in DOMAIN ports |->
                         int(os_getenv(env.environ, ports[k].var,
                                       ports[k].default)).value]
             down == {k \in DOMAIN ports : port[k] \notin env.listening
                                              \/ port[k] \in env.raising}
         IN /\ issues' = issues
            /\ \A k \in down :
                  \E n \in DOMAIN warnings' :
                      /\ n > Len(warnings)
                      /\ warnings'[n] = Entry("service_not_running",
                                              ports[k].name, "", port[k], 0)
            /\ Len(warnings') = Len(warnings) + Cardinality(down)
            /\ results'["MCP services"] = PyBool(down = {})
      ]_vars

\* C9 as stated: on a present, parsed config document that lacks one of
\* the four required fields, the config probe appends exactly one issue,
\* naming the first field the document lacks, appends nothing else and
\* returns False.
C9_FirstMissingFieldOnly ==
    [][AtProbe("check_config_file") =>
         LET doc == env.config.doc
             fields == IF doc.kind = "object" THEN doc.has ELSE {}
             lacking == {k \in 1..4 : required_fields[k] \notin fields}
             first == CHOOSE k \in lacking : \A n \in lacking : k <= n
         IN ("configs/default_config.json" \in env.paths
                /\ env.config.file = "parsed" /\ lacking # {})
            => /\ issues' = Append(issues,
                                   Entry("config_field_missing",
                                         << "agent_type", "date_range",
                                            "models", "agent_config" >>[first],
                                         "", 0, 0))
               /\ warnings' = warnings
               /\ success' = success
               /\ results'["Configuration"] = "False"
      ]_vars

\* C10: the version probe passes (one success entry, True) exactly when
\* major >= 3 and minor >= 10, and otherwise appends one issue and gives
\* False: (3, 9) and (4, 0) are rejected, (3, 10) and (3, 15) pass.
C10_VersionStrictAnd ==
    i = 2 =>
        LET major == env.version.major
            minor == env.version.minor
        IN IF major >= 3 /\ minor >= 10
           THEN /\ success = << Entry("python_ok", "", "", major, minor) >>
                /\ issues = << >>
                /\ warnings = << >>
                /\ results["Python version"] = "True"
           ELSE /\ issues = << Entry("python_too_old", "", "", major, minor) >>
                /\ success = << >>
                /\ warnings = << >>
                /\ results["Python version"] = "False"

\* C10 witness: version 4.0 has been rejected by the probe.
C10_LaterMajorRejected ==
    /\ i = 2
    /\ env.version = [major |-> 4, minor |-> 0]
    /\ issues = << Entry("python_too_old", "", "", 4, 0) >>
    /\ results["Python version"] = "False"

====
